---- MODULE Spec2Model ----
(***************************************************************************)
(* Model of bucky/collectd.py: the collectd binary protocol parser         *)
(* (CollectDParser), the metric name converter (CollectDConverter) and the *)
(* ingest loop with its rate calculator (CollectDServer).                  *)
(*                                                                         *)
(* The module is Python 2 (`except ProtocolError, e`): `/` on two integers *)
(* is floor division, str is a byte string, and only ProtocolError is      *)
(* caught by run.  A Python call is modelled as an operator returning a    *)
(* record with the field exc: "none" or the name of the exception raised.  *)
(* None is the empty sequence <<>>, a returned value v is <<v>>.           *)
(***************************************************************************)
EXTENDS Integers, Sequences, FiniteSets, TLC

VARIABLES
    prev_samples,   \* CollectDServer.prev_samples: name -> <<val, time>>
    queue,          \* CollectDServer.queue: the tuples put so far
    last,           \* the last call of calculate: arguments, baseline before, outcome
    data,           \* the local `data`: remaining bytes of the datagram being walked
    yielded,        \* the parts parse_data has yielded so far for this datagram
    wpc,            \* position of the parse_data generator: "run", "raised", "stopped"
    werr,           \* the exception the generator raised, "none" before
    dgram,          \* the datagram run received last
    received,       \* how many datagrams run has received
    handled,        \* how many samples of dgram went through calculate
    alive,          \* the run thread is still in its while loop
    logged,         \* outcome of the last run iteration: "none", or the exception
    seenRate,       \* names calculate was called for with kind COUNTER, DERIVE, ABSOLUTE
    seenAny,        \* names calculate was called for with one of the four kinds
    psample,        \* the dict `sample` the part decoders are called on
    pcall           \* the last direct call of a parser or converter method

vars == <<prev_samples, queue, last, data, yielded, wpc, werr, dgram, received,
          handled, alive, logged, seenRate, seenAny, psample, pcall>>

(***************************************************************************)
(* Bounds                                                                  *)
(***************************************************************************)
MaxVal   == 2      \* raw values are drawn from 0..MaxVal
MaxTime  == 2      \* timestamps are drawn from 0..MaxTime
MaxParts == 2      \* a datagram is the concatenation of at most MaxParts chunks
MaxDatagrams == 3  \* run receives at most MaxDatagrams datagrams

Names == {<<104>>, <<109>>}     \* the metric names "h" and "m"
Vals  == 0..MaxVal
Times == 0..MaxTime
Kinds == 0..4      \* 0 COUNTER, 1 GAUGE, 2 DERIVE, 3 ABSOLUTE, 4 no handler

None == <<>>
Some(v) == <<v>>

(***************************************************************************)
(* Python 2 integer division: int / int is the floor of the quotient.      *)
(***************************************************************************)
PyDiv(a, b) == IF b > 0 THEN a \div b ELSE (0 - a) \div (0 - b)

(***************************************************************************)
(* CollectDServer: the rate calculator                                     *)
(***************************************************************************)
\* a store that resets the baseline of every name
StoreAll(ps, name, val, time) ==
    [n \in DOMAIN ps \cup {name} |-> <<val, time>>]

Store(ps, name, val, time) == (name :> <<val, time>>) @@ ps

\* a first observation that returns without storing the baseline
FirstObservationNoStore(ps, name, val, time) ==
    [ps |-> ps, ret |-> None, exc |-> "none"]

FirstObservation(ps, name, val, time) ==
    [ps |-> Store(ps, name, val, time), ret |-> None, exc |-> "none"]

_calc_counter(ps, name, val, time) ==
    IF name \notin DOMAIN ps
    THEN FirstObservation(ps, name, val, time)
    ELSE LET pval  == ps[name][1]
             ptime == ps[name][2]
             ps2   == Store(ps, name, val, time)
         IN  IF val < pval
             THEN [ps |-> ps2, ret |-> None, exc |-> "none"]
             ELSE IF time - ptime = 0
                  THEN [ps |-> ps2, ret |-> None, exc |-> "ZeroDivisionError"]
                  ELSE [ps |-> ps2, ret |-> Some(PyDiv(val - pval, time - ptime)),
                        exc |-> "none"]

_calc_derive(ps, name, val, time) ==
    IF name \notin DOMAIN ps
    THEN FirstObservation(ps, name, val, time)
    ELSE LET pval  == ps[name][1]
             ptime == ps[name][2]
             ps2   == Store(ps, name, val, time)
         IN  IF time - ptime = 0
             THEN [ps |-> ps2, ret |-> None, exc |-> "ZeroDivisionError"]
             ELSE [ps |-> ps2, ret |-> Some(PyDiv(val - pval, time - ptime)),
                   exc |-> "none"]

_calc_absolute(ps, name, val, time) ==
    IF name \notin DOMAIN ps
    THEN FirstObservation(ps, name, val, time)
    ELSE LET ptime == ps[name][2]
             ps2   == Store(ps, name, val, time)
         IN  IF time - ptime = 0
             THEN [ps |-> ps2, ret |-> None, exc |-> "ZeroDivisionError"]
             ELSE [ps |-> ps2, ret |-> Some(PyDiv(val, time - ptime)), exc |-> "none"]

\* handlers[1] is `lambda v: v`, a function of one parameter; calculate calls
\* every handler with the three arguments (name, val, time)
GaugeLambdaParams == 1
HandlerCallArgs   == 3
_calc_gauge(ps, name, val, time) ==
    IF GaugeLambdaParams # HandlerCallArgs
    THEN [ps |-> ps, ret |-> None, exc |-> "TypeError"]
    ELSE [ps |-> ps, ret |-> Some(name), exc |-> "none"]

calculate(ps, name, vtype, val, time) ==
    CASE vtype = 0 -> _calc_counter(ps, name, val, time)
      [] vtype = 1 -> _calc_gauge(ps, name, val, time)
      [] vtype = 2 -> _calc_derive(ps, name, val, time)
      [] vtype = 3 -> _calc_absolute(ps, name, val, time)
      [] OTHER     -> [ps |-> ps, ret |-> None, exc |-> "none"]

(***************************************************************************)
(* Byte strings: a str is a sequence of bytes 0..255                       *)
(***************************************************************************)
Min(a, b) == IF a < b THEN a ELSE b
Max(a, b) == IF a > b THEN a ELSE b

\* s[:n] and s[n:] with Python's clamping and negative indices
Cut(s, n)  == IF n >= 0 THEN Min(n, Len(s)) ELSE Max(0, Len(s) + n)
Take(s, n) == SubSeq(s, 1, Cut(s, n))
\* a slice data[n:] that drops nothing
DropNone(s, n) == s

Drop(s, n) == SubSeq(s, Cut(s, n) + 1, Len(s))

\* struct.unpack of a big-endian unsigned integer ("!H", "!Q")
RECURSIVE UnpackBE(_)
UnpackBE(b) ==
    IF b = <<>> THEN 0 ELSE UnpackBE(SubSeq(b, 1, Len(b) - 1)) * 256 + b[Len(b)]

\* struct.unpack("!q"): two's complement, big-endian
UnpackSignedBE(b) ==
    IF b[1] < 128 THEN UnpackBE(b)
    ELSE 0 - (UnpackBE([i \in 1..Len(b) |-> 255 - b[i]]) + 1)

(***************************************************************************)
(* CollectDParser.parse_data: one resumption of the generator              *)
(***************************************************************************)
PartTypes == {0, 1, 2, 3, 4, 5, 6, 7, 8, 9, 256, 257, 512, 528}

TruncatedHeader(d) == Len(d) < 4

\* the payload check made against the length that still counts the header
TruncatedValueWithHeader(d, part_len) == Len(d) < part_len - 4

TruncatedValue(d, part_len) == Len(d) < part_len

Raise(err, msg, d) ==
    [k |-> "raise", err |-> err, msg |-> msg, ptype |-> 0, pdata |-> <<>>, data |-> d]

parse_data(d) ==
    IF ~(Len(d) > 0)
    THEN [k |-> "stop", err |-> "none", msg |-> "", ptype |-> 0, pdata |-> <<>>,
          data |-> d]
    ELSE IF TruncatedHeader(d)
    THEN Raise("ProtocolError", "Truncated header.", d)
    ELSE LET part_type == UnpackBE(SubSeq(d, 1, 2))
             declared  == UnpackBE(SubSeq(d, 3, 4))
             d1        == Drop(d, 4)
             part_len  == declared - 4
         IN  IF part_type \notin PartTypes
             THEN Raise("ProtocolError", "Invalid part type", d1)
             ELSE IF TruncatedValue(d1, part_len)
             THEN Raise("ProtocolError", "Truncated value.", d1)
             ELSE [k |-> "yield", err |-> "none", msg |-> "", ptype |-> part_type,
                   pdata |-> Take(d1, part_len), data |-> Drop(d1, part_len)]

(***************************************************************************)
(* CollectDTypes: the table _add_type_line builds from a types.db with the *)
(* lines  c value:COUNTER:0:U   g value:GAUGE:U:U   d value:DERIVE:U:U     *)
(*        a value:ABSOLUTE:0:U  i rx:COUNTER:0:U, tx:COUNTER:0:U           *)
(* keyed by the type name as a byte string ("c" is <<99>>).                *)
(***************************************************************************)
StrValue == <<118, 97, 108, 117, 101>>          \* "value"
StrRx    == <<114, 120>>                        \* "rx"
StrTx    == <<116, 120>>                        \* "tx"

types ==
    (<<99>>  :> << <<StrValue, 0>> >>) @@
    (<<103>> :> << <<StrValue, 1>> >>) @@
    (<<100>> :> << <<StrValue, 2>> >>) @@
    (<<97>>  :> << <<StrValue, 3>> >>) @@
    (<<105>> :> << <<StrRx, 0>>, <<StrTx, 0>> >>)

\* CollectDTypes.get
types_get(name) ==
    IF name \notin DOMAIN types
    THEN [exc |-> "ProtocolError", t |-> <<>>]
    ELSE [exc |-> "none", t |-> types[name]]

(***************************************************************************)
(* CollectDParser: the part decoders.  A dict is a function on its keys.   *)
(***************************************************************************)
SetItem(dict, key, v) == (key :> v) @@ dict

_parse_string(name, sample, d) ==
    IF Len(d) = 0
    THEN [exc |-> "IndexError", sample |-> sample]           \* data[-1] of ''
    ELSE IF d[Len(d)] # 0
    THEN [exc |-> "ProtocolError", sample |-> sample]
    ELSE [exc |-> "none", sample |-> SetItem(sample, name, Take(d, 0 - 1))]

\* a float is kept as the fraction num/den that it is exactly
_parse_time(name, sample, d) ==
    IF Len(d) # 8
    THEN [exc |-> "ProtocolError", sample |-> sample]
    ELSE [exc |-> "none",
          sample |-> SetItem(sample, name, [num |-> UnpackBE(d), den |-> 1])]

HiresScale == 1073741824        \* 2 ** 30
_parse_time_hires(name, sample, d) ==
    IF Len(d) # 8
    THEN [exc |-> "ProtocolError", sample |-> sample]
    ELSE [exc |-> "none",
          sample |-> SetItem(sample, name, [num |-> UnpackBE(d), den |-> HiresScale])]

\* struct.unpack(types[vtype], vdata): "!Q", "<d", "!q", "!Q"
UnpackValue(vtype, vdata) ==
    CASE vtype = 0 -> UnpackBE(vdata)
      [] vtype = 1 -> [f64le |-> vdata]
      [] vtype = 2 -> UnpackSignedBE(vdata)
      [] vtype = 3 -> UnpackBE(vdata)

\* parse_values is a generator; everything before its first yield runs at the
\* first next(), and the decoding after it cannot fail, so the values it yields
\* are given as the sequence vals.
parse_values(stype, d) ==
    IF Len(Take(d, 2)) # 2
    THEN [exc |-> "struct.error", vals |-> <<>>]
    ELSE LET nvals == UnpackBE(Take(d, 2))
             d1    == Drop(d, 2)
         IN  IF Len(d1) # 9 * nvals
             THEN [exc |-> "ProtocolError", vals |-> <<>>]
             ELSE LET g == types_get(stype) IN
                  IF g.exc # "none"
                  THEN [exc |-> g.exc, vals |-> <<>>]
                  ELSE LET vtypes == g.t IN
                  IF nvals # Len(vtypes)
                  THEN [exc |-> "ProtocolError", vals |-> <<>>]
                  ELSE IF \E i \in 1..nvals : d1[i] # vtypes[i][2]
                  THEN [exc |-> "ProtocolError", vals |-> <<>>]
                  ELSE LET d2 == Drop(d1, nvals) IN
                       [exc |-> "none",
                        vals |-> [i \in 1..nvals |->
                                    <<vtypes[i][1], vtypes[i][2],
                                      UnpackValue(vtypes[i][2],
                                                  SubSeq(d2, 8 * (i - 1) + 1, 8 * i))>>]]

(***************************************************************************)
(* CollectDParser.parse_samples                                            *)
(***************************************************************************)
\* what an instance of CollectDParser has: the attribute set in __init__ and
\* the methods of the class
ParserAttrs ==
    {"types", "parse", "parse_samples", "parse_data", "parse_values",
     "_parse_string", "_parse_time", "_parse_time_hires"}

\* the attributes of self the dict literal `types` looks up, in source order
DispatchRefs ==
    <<"_parse_string", "_parse_time", "_parse_time_hires", "_parse_string",
      "_parse_string", "_parse_string", "_parse_string", "_parse_values",
      "_parse_time", "_parse_time_hires">>

DispatchBuilt == \A i \in 1..Len(DispatchRefs) : DispatchRefs[i] \in ParserAttrs

HandledTypes == {0, 1, 8, 2, 3, 4, 5, 6, 7, 9}

Dispatch(ptype, sample, d) ==
    CASE ptype = 0 -> _parse_string("host", sample, d)
      [] ptype = 1 -> _parse_time("time", sample, d)
      [] ptype = 8 -> _parse_time_hires("time", sample, d)
      [] ptype = 2 -> _parse_string("plugin", sample, d)
      [] ptype = 3 -> _parse_string("plugin_instance", sample, d)
      [] ptype = 4 -> _parse_string("type", sample, d)
      [] ptype = 5 -> _parse_string("type_instance", sample, d)
      [] ptype = 7 -> _parse_time("interval", sample, d)
      [] ptype = 9 -> _parse_time_hires("interval", sample, d)

GenRaise(exc, g) == [k |-> "raise", exc |-> exc, out |-> <<>>, g |-> g]

\* The generator state g is the locals of parse_samples: the bytes parse_data
\* still has to walk, the dict sample, and the values of the current values
\* part that are not yielded yet.  The loop runs to the next yield.
RECURSIVE parse_samples_next(_)
parse_samples_next(g) ==
    IF g.pend # <<>>
    THEN LET v == Head(g.pend)
             s == SetItem(SetItem(SetItem(g.sample, "value_name", v[1]),
                                  "value_type", v[2]), "value", v[3])
         IN  [k |-> "yield", exc |-> "none", out |-> s,
              g |-> [data |-> g.data, sample |-> s, pend |-> Tail(g.pend)]]
    ELSE LET p == parse_data(g.data) IN
         CASE p.k = "stop"  -> [k |-> "stop", exc |-> "none", out |-> <<>>, g |-> g]
           [] p.k = "raise" -> GenRaise(p.err, g)
           [] OTHER ->
              IF p.ptype \notin HandledTypes
              THEN parse_samples_next([g EXCEPT !.data = p.data])
              ELSE IF p.ptype # 6
              THEN LET r == Dispatch(p.ptype, g.sample, p.pdata) IN
                   IF r.exc # "none"
                   THEN GenRaise(r.exc, g)
                   ELSE parse_samples_next([data |-> p.data, sample |-> r.sample,
                                            pend |-> <<>>])
              ELSE IF "type" \notin DOMAIN g.sample
              THEN GenRaise("KeyError", g)
              ELSE LET r == parse_values(g.sample["type"], p.pdata) IN
                   IF r.exc # "none"
                   THEN GenRaise(r.exc, g)
                   ELSE parse_samples_next([data |-> p.data, sample |-> g.sample,
                                            pend |-> r.vals])

\* the first next() of parse_samples(data): the dict literal, then the loop
parse_samples(d) ==
    LET g == [data |-> d, sample |-> <<>>, pend |-> <<>>] IN
    IF ~DispatchBuilt
    THEN GenRaise("AttributeError", g)
    ELSE parse_samples_next(g)

(***************************************************************************)
(* CollectDConverter, as CollectDServer builds it from no converter        *)
(* options: prefix=None, postfix=None, replace="_", strip_duplicates=True, *)
(* host_trim=None.                                                         *)
(***************************************************************************)
prefix  == None
postfix == None
replace == Some(95)             \* "_"

\* what an instance of CollectDConverter has: the attributes set in __init__
\* and the methods of the class
ConverterAttrs ==
    {"prefix", "postfix", "replace", "strip_dupes", "host_trim",
     "convert", "stat", "hostname", "default", "strip_duplicates"}

\* p.replace(".", self.replace) for a one-character replacement
ReplaceDots(p, r) == [i \in 1..Len(p) |-> IF p[i] = 46 THEN r ELSE p[i]]

\* ret[-1] of the empty list raises IndexError
RECURSIVE strip_duplicates_loop(_, _)
strip_duplicates_loop(parts, ret) ==
    IF parts = <<>> THEN [exc |-> "none", parts |-> ret]
    ELSE IF ret = <<>> THEN [exc |-> "IndexError", parts |-> ret]
    ELSE strip_duplicates_loop(Tail(parts),
             IF Head(parts) # ret[Len(ret)] THEN Append(ret, Head(parts)) ELSE ret)

strip_duplicates(parts) == strip_duplicates_loop(parts, <<>>)

\* ".".join(parts)
RECURSIVE Join(_)
Join(parts) ==
    IF parts = <<>> THEN <<>>
    ELSE IF Len(parts) = 1 THEN parts[1]
    ELSE parts[1] \o <<46>> \o Join(Tail(parts))

\* s.split(sep) for a one-byte separator
RECURSIVE Split(_, _)
Split(str, sep) ==
    IF \A i \in 1..Len(str) : str[i] # sep THEN <<str>>
    ELSE LET i == CHOOSE j \in 1..Len(str) :
                      str[j] = sep /\ \A k \in 1..(j - 1) : str[k] # sep
         IN  <<SubSeq(str, 1, i - 1)>> \o Split(SubSeq(str, i + 1, Len(str)), sep)

\* s.strip(): whitespace removed at both ends
Whitespace == {9, 10, 11, 12, 13, 32}
RECURSIVE Strip(_)
Strip(str) ==
    IF str = <<>> THEN str
    ELSE IF Head(str) \in Whitespace THEN Strip(Tail(str))
    ELSE IF str[Len(str)] \in Whitespace THEN Strip(SubSeq(str, 1, Len(str) - 1))
    ELSE str

Reversed(seq) == [i \in 1..Len(seq) |-> seq[Len(seq) + 1 - i]]

\* sample.get(key, default)
DictGet(dict, key, default) == IF key \in DOMAIN dict THEN dict[key] ELSE default

\* self.host_trim = []
host_trim == <<>>

\* CollectDConverter(host_trim=ht): the for loop of __init__ fails in its first
\* iteration, reversed() of a generator being a TypeError
CollectDConverter(ht) ==
    IF ht # None /\ ht[1] # <<>>
    THEN [exc |-> "TypeError", host_trim |-> host_trim]
    ELSE [exc |-> "none", host_trim |-> host_trim]

\* the loop `for s in ...` of hostname over the rules: every rule is tried on
\* what the rules before it left; parts[i] past the end raises IndexError
RECURSIVE hostname_trim(_, _)
hostname_trim(parts, rules) ==
    IF rules = <<>> THEN [exc |-> "none", parts |-> parts]
    ELSE LET s   == Head(rules)
             bad == {i \in 1..Len(s) : i > Len(parts) \/ s[i] # parts[i]}
         IN  IF bad = {} THEN hostname_trim(Drop(parts, Len(s)), Tail(rules))
             ELSE IF (CHOOSE i \in bad : \A j \in bad : i <= j) > Len(parts)
             THEN [exc |-> "IndexError", parts |-> parts]
             ELSE hostname_trim(parts, Tail(rules))

\* hostname iterates self.strip; __init__ sets self.host_trim and no strip
hostname(host) ==
    LET labels == Split(host, 46)
        parts  == Reversed([i \in 1..Len(labels) |-> Strip(labels[i])])
    IN  IF "strip" \notin ConverterAttrs
        THEN [exc |-> "AttributeError", parts |-> <<>>]
        ELSE hostname_trim(parts, host_trim)

AppendIf(cond, parts, p) == IF cond THEN Append(parts, p) ELSE parts

default(sample) ==
    IF "plugin" \notin DOMAIN sample
    THEN [exc |-> "KeyError", parts |-> <<>>]
    ELSE IF "value_name" \notin DOMAIN sample
    THEN [exc |-> "AttributeError", parts |-> <<>>]      \* None.strip()
    ELSE LET p1     == <<Strip(sample["plugin"])>>
             p2     == AppendIf(DictGet(sample, "plugin_instance", <<>>) # <<>>, p1,
                                Strip(DictGet(sample, "plugin_instance", <<>>)))
             stype  == Strip(DictGet(sample, "type", <<>>))
             p3     == AppendIf(stype # <<>> /\ stype # StrValue, p2, stype)
             stypei == Strip(DictGet(sample, "type_instance", <<>>))
             p4     == AppendIf(stypei # <<>>, p3, stypei)
             vname  == Strip(sample["value_name"])
             p5     == AppendIf(vname # <<>> /\ vname # StrValue, p4, vname)
         IN  [exc |-> "none", parts |-> p5]

\* stat reads self.parts, which no CollectDConverter has, before it calls
\* hostname or default.  What hostname, default and postfix give goes to
\* self.parts; the rest of stat works on its local list `parts`, and
\* `if self.strip_duplicates` tests the bound method, which is true.
StatRaise(exc) == [exc |-> exc, name |-> <<>>]

\* lines 212-216, r being what strip_duplicates(parts) gave
stat_join(r) ==
    IF r.exc # "none" THEN StatRaise(r.exc)
    ELSE [exc |-> "none", name |-> Join(r.parts)]

\* lines 208-216, h and df being what hostname and default gave
stat_parts(parts, h, df) ==
    IF h.exc # "none" THEN StatRaise(h.exc)
    ELSE IF df.exc # "none" THEN StatRaise(df.exc)
    ELSE stat_join(strip_duplicates(
             IF replace # None
             THEN [i \in 1..Len(parts) |-> ReplaceDots(parts[i], replace[1])]
             ELSE parts))

stat(sample) ==
    IF "parts" \notin ConverterAttrs
    THEN StatRaise("AttributeError")
    ELSE stat_parts(IF prefix # None THEN <<prefix[1]>> ELSE <<>>,
                    hostname(DictGet(sample, "host", <<>>)),
                    default(sample))

\* int() of a float kept as num/den, num >= 0
PyInt(f) == f.num \div f.den

\* line 202, st being what stat(sample) gave
convert_tuple(st, sample) ==
    IF st.exc # "none"
    THEN [exc |-> st.exc, name |-> <<>>, vtype |-> 0, val |-> 0, time |-> 0]
    ELSE IF "time" \notin DOMAIN sample
    THEN [exc |-> "KeyError", name |-> <<>>, vtype |-> 0, val |-> 0, time |-> 0]
    ELSE [exc |-> "none", name |-> st.name, vtype |-> sample["value_type"],
          val |-> sample["value"], time |-> PyInt(sample["time"])]

convert(sample) == convert_tuple(stat(sample), sample)

(***************************************************************************)
(* CollectDServer.run: the body of the while loop for one datagram.  nx is *)
(* what the last next() of the generator gave, n counts the samples that   *)
(* went through calculate.  An exception other than ProtocolError leaves   *)
(* the loop.                                                               *)
(***************************************************************************)
RECURSIVE run_for(_, _, _, _)

\* lines 282-283, r being what calculate gave for the converted sample c
run_put(nx, c, r, q, n) ==
    IF r.exc # "none"
    THEN [exc |-> r.exc, ps |-> r.ps, q |-> q, n |-> n + 1]
    ELSE run_for(parse_samples_next(nx.g), r.ps,
                 IF r.ret # None THEN Append(q, <<c.name, r.ret[1], c.time>>) ELSE q,
                 n + 1)

\* lines 280-283, c being what convert gave for the sample nx.out
run_sample(nx, c, ps, q, n) ==
    IF c.exc # "none"
    THEN [exc |-> c.exc, ps |-> ps, q |-> q, n |-> n]
    ELSE run_put(nx, c, calculate(ps, c.name, c.vtype, c.val, c.time), q, n)

run_for(nx, ps, q, n) ==
    CASE nx.k = "stop"  -> [exc |-> "none", ps |-> ps, q |-> q, n |-> n]
      [] nx.k = "raise" -> [exc |-> nx.exc, ps |-> ps, q |-> q, n |-> n]
      [] OTHER          -> run_sample(nx, convert(nx.out), ps, q, n)

Caught(exc) == exc \in {"none", "ProtocolError"}

(***************************************************************************)
(* The datagrams the socket delivers: concatenations of at most MaxParts   *)
(* chunks, where a chunk is a part (well formed or not) or a fragment.     *)
(***************************************************************************)
Part(ptype, declared, payload) ==
    <<ptype \div 256, ptype % 256, declared \div 256, declared % 256>> \o payload

WellFormed(ptype, payload) == Part(ptype, Len(payload) + 4, payload)

Chunks ==
    { WellFormed(0, <<104, 0>>),                        \* host "h"
      WellFormed(0, <<>>),                              \* host, empty payload
      WellFormed(2, <<112>>),                           \* plugin, no terminator
      WellFormed(1, <<0, 0, 0, 0, 0, 0, 0, 1>>),        \* time 1
      WellFormed(8, <<0, 0, 0, 0, 64, 0, 0, 0>>),       \* hi-res time 1.0
      WellFormed(7, <<0, 1>>),                          \* interval, 2 bytes
      WellFormed(4, <<99, 0>>),                         \* type "c"
      WellFormed(4, <<105, 0>>),                        \* type "i"
      WellFormed(4, <<120, 0>>),                        \* type "x", not in types
      WellFormed(6, <<0, 1, 0, 0, 0, 0, 0, 0, 0, 0, 2>>),     \* 1 COUNTER: 2
      WellFormed(6, <<0, 2, 0, 0, 0, 0, 0, 0, 0, 0, 0, 1,
                      0, 0, 0, 0, 0, 0, 0, 3>>),               \* 2 COUNTERs: 1, 3
      WellFormed(6, <<0, 1, 2, 255, 255, 255, 255, 255, 255, 255, 254>>), \* DERIVE -2
      WellFormed(6, <<0>>),                             \* values, 1 byte
      WellFormed(6, <<0, 1, 0>>),                       \* values, wrong length
      WellFormed(256, <<7>>),                           \* message
      WellFormed(257, <<0, 0, 0, 0, 0, 0, 0, 4>>),      \* severity
      WellFormed(512, <<1>>),                           \* signature
      WellFormed(528, <<>>),                            \* encryption
      WellFormed(10, <<>>),                             \* no protocol code
      WellFormed(768, <<1>>),                           \* no protocol code
      Part(11, 9, <<1>>),                \* no protocol code, payload cut short
      WellFormed(4, <<99, 0>>) \o
          WellFormed(6, <<0, 1, 0, 0, 0, 0, 0, 0, 0, 0, 2>>),  \* type "c", COUNTER 2
      Part(0, 0, <<>>),                                 \* declared length 0
      Part(2, 3, <<112, 0>>),                           \* declared length 3
      Part(0, 1, <<>>),                                 \* declared length 1
      Part(0, 2, <<104, 0, 0>>),                        \* declared length 2
      Part(0, 65535, <<104>>),                          \* declared length 65535
      Part(0, 9, <<104>>),                              \* payload cut short
      <<0>>,                                            \* 1 byte of a header
      <<0, 4, 0>> }                                     \* 3 bytes of a header

RECURSIVE Concats(_)
Concats(n) ==
    IF n = 0 THEN {<<>>}
    ELSE LET P == Concats(n - 1) IN P \cup {p \o c : p \in P, c \in Chunks}

Datagrams == Concats(MaxParts)

(***************************************************************************)
(* Initial states and actions                                              *)
(***************************************************************************)
\* The objects as their __init__ methods assign them: prev_samples = {}, an
\* empty queue, the default converter, and the type table above.  (The loader
\* CollectDTypes._load_types opens self.types_db, an attribute nothing sets, so
\* the table is taken as _add_type_line fills it.)
NoCall ==
    [called |-> FALSE, name |-> <<>>, vtype |-> 0, val |-> 0, time |-> 0,
     had |-> FALSE, pval |-> 0, ptime |-> 0, ret |-> None, exc |-> "none"]

InitServer ==
    /\ prev_samples = <<>>
    /\ queue = <<>>
    /\ last = NoCall
    /\ received = 0
    /\ handled = 0
    /\ alive = TRUE
    /\ logged = "none"
    /\ seenRate = {}
    /\ seenAny = {}
    /\ psample = <<>>
    /\ pcall = [op |-> "none"]

InitWalkIdle ==
    /\ data = <<>>
    /\ yielded = <<>>
    /\ wpc = "stopped"
    /\ werr = "none"

\* CollectDServer.run: one iteration of `while True`
run ==
    /\ alive
    /\ received < MaxDatagrams
    /\ received' = received + 1
    /\ \E d \in Datagrams :
         LET r == run_for(parse_samples(d), prev_samples, queue, 0) IN
         /\ dgram' = d
         /\ prev_samples' = r.ps
         /\ queue' = r.q
         /\ handled' = r.n
         /\ logged' = r.exc
         /\ alive' = Caught(r.exc)
    /\ UNCHANGED <<last, data, yielded, wpc, werr, seenRate, seenAny, psample, pcall>>

Init == InitServer /\ InitWalkIdle /\ dgram = <<>>
Next == run
Spec == Init /\ [][Next]_vars

\* a caller of CollectDServer.calculate
Calculate ==
    \E name \in Names, vtype \in Kinds, val \in Vals, time \in Times :
        LET r   == calculate(prev_samples, name, vtype, val, time)
            had == name \in DOMAIN prev_samples
        IN  /\ prev_samples' = r.ps
            /\ last' = [called |-> TRUE, name |-> name, vtype |-> vtype, val |-> val,
                        time |-> time, had |-> had,
                        pval  |-> IF had THEN prev_samples[name][1] ELSE 0,
                        ptime |-> IF had THEN prev_samples[name][2] ELSE 0,
                        ret |-> r.ret, exc |-> r.exc]
            /\ seenRate' = IF vtype \in {0, 2, 3} THEN seenRate \cup {name}
                            ELSE seenRate
            /\ seenAny' = IF vtype \in 0..3 THEN seenAny \cup {name} ELSE seenAny
            /\ UNCHANGED <<queue, data, yielded, wpc, werr, dgram, received, handled,
                           alive, logged, psample, pcall>>

NextCalc == Calculate
SpecCalc == Init /\ [][NextCalc]_vars

\* a caller iterating CollectDParser.parse_data(d): one next() of the generator
ParseDataNext ==
    /\ wpc = "run"
    /\ LET p == parse_data(data) IN
       /\ data' = p.data
       /\ wpc' = CASE p.k = "yield" -> "run"
                   [] p.k = "raise" -> "raised"
                   [] OTHER         -> "stopped"
       /\ werr' = p.err
       /\ yielded' = IF p.k = "yield" THEN Append(yielded, <<p.ptype, p.pdata>>)
                     ELSE yielded
    /\ UNCHANGED <<prev_samples, queue, last, dgram, received, handled, alive, logged,
                   seenRate, seenAny, psample, pcall>>

InitWalk ==
    /\ InitServer
    /\ data \in Datagrams
    /\ dgram = data
    /\ yielded = <<>>
    /\ wpc = "run"
    /\ werr = "none"

\* next() of a generator that has raised: StopIteration, nothing is yielded
ParseDataExhausted ==
    /\ wpc = "raised"
    /\ wpc' = "stopped"
    /\ UNCHANGED <<prev_samples, queue, last, data, yielded, werr, dgram, received,
                   handled, alive, logged, seenRate, seenAny, psample, pcall>>

NextWalk == ParseDataNext \/ ParseDataExhausted
SpecWalk == InitWalk /\ [][NextWalk]_vars

(***************************************************************************)
(* Claims                                                                  *)
(***************************************************************************)
FirstCall == last.called /\ ~last.had
RateKinds == {0, 2, 3}
Baseline(name) == prev_samples[name]

\* C1: no datagram terminates the ingest loop: after every datagram run has
\* received, malformed or not, the thread is still in its while loop.
C1_LoopSurvives == alive

C3_GaugeEmitsRaw ==
    (last.called /\ last.vtype = 1) =>
        (last.exc = "none" /\ last.ret = Some(last.val))

\* ret is the exact quotient num/den
IsQuotient(ret, num, den) == ret # None /\ ret[1] * den = num

NonZeroDelta == last.called /\ last.had /\ last.time # last.ptime

\* C4: a COUNTER sample (val2, t2) against the baseline (val1, t1), t2 # t1,
\* emits (val2 - val1)/(t2 - t1) when val2 >= val1 and nothing when
\* val2 < val1; in both cases the baseline becomes (val2, t2).
C4_CounterRate ==
    (NonZeroDelta /\ last.vtype = 0) =>
        /\ Baseline(last.name) = <<last.val, last.time>>
        /\ last.exc = "none"
        /\ IF last.val >= last.pval
           THEN IsQuotient(last.ret, last.val - last.pval, last.time - last.ptime)
           ELSE last.ret = None

\* C5: a DERIVE sample (val2, t2) against the baseline (val1, t1), t2 # t1,
\* emits the quotient (val2 - val1)/(t2 - t1), not rounded to an integer, also
\* for a negative delta, and the baseline becomes (val2, t2).
C5_DeriveRate ==
    (NonZeroDelta /\ last.vtype = 2) =>
        /\ Baseline(last.name) = <<last.val, last.time>>
        /\ last.exc = "none"
        /\ IsQuotient(last.ret, last.val - last.pval, last.time - last.ptime)

\* C6: an ABSOLUTE sample (val2, t2) against the baseline (val1, t1), t2 # t1,
\* emits val2/(t2 - t1) and the baseline becomes (val2, t2).
C6_AbsoluteRate ==
    (NonZeroDelta /\ last.vtype = 3) =>
        /\ Baseline(last.name) = <<last.val, last.time>>
        /\ last.exc = "none"
        /\ IsQuotient(last.ret, last.val, last.time - last.ptime)

\* C7: a COUNTER, DERIVE or ABSOLUTE sample with the timestamp of the stored
\* baseline emits nothing, leaves the baseline unchanged and raises nothing
\* that would leave the ingest loop.
C7_ZeroDeltaIsLocal ==
    (last.called /\ last.had /\ last.time = last.ptime /\ last.vtype \in RateKinds) =>
        /\ last.ret = None
        /\ last.exc = "none"
        /\ Baseline(last.name) = <<last.pval, last.ptime>>

\* what the for loop of parse_samples (lines 111-123) yields for the bytes d
\* and how it ends
RECURSIVE Drain(_, _)
Drain(nx, acc) ==
    IF nx.k = "yield" THEN Drain(parse_samples_next(nx.g), Append(acc, nx.out))
    ELSE [exc |-> nx.exc, samples |-> acc]

PartWalk(d) == Drain(parse_samples_next([data |-> d, sample |-> <<>>, pend |-> <<>>]), <<>>)

\* C8: when the part walk of the received datagram ends in a ProtocolError, the
\* error is caught at the datagram boundary, the loop goes on, and exactly the
\* samples of the parts before the failing part went through calculate.
C8_AbortsRemainderOnly ==
    (received > 0 /\ PartWalk(dgram).exc = "ProtocolError") =>
        /\ alive
        /\ logged = "ProtocolError"
        /\ handled = Len(PartWalk(dgram).samples)

\* C9: in the part walk, when bytes remain but fewer than 4, or fewer bytes
\* follow a header than its declared length minus 4, parse_data raises
\* ProtocolError and yields nothing; once it has raised it yields no part.
C9_TruncationRaises ==
    [][ /\ (/\ wpc = "run"
            /\ \/ (Len(data) > 0 /\ Len(data) < 4)
               \/ (Len(data) >= 4 /\
                   Len(data) - 4 < UnpackBE(SubSeq(data, 3, 4)) - 4))
           => (wpc' = "raised" /\ werr' = "ProtocolError" /\ yielded' = yielded)
        /\ (wpc = "raised") => (yielded' = yielded /\ wpc' # "run")
      ]_vars

C9_Witness ==
    /\ wpc = "raised" /\ werr = "ProtocolError"
    /\ Len(yielded) >= 1
    /\ Len(data) = 3

PartCode(d) == UnpackBE(SubSeq(d, 1, 2))
OnePart(d) == Len(d) >= 4 /\ UnpackBE(SubSeq(d, 3, 4)) = Len(d)
SkippedTypes == {256, 257, 512, 528}

\* C10: a datagram that is one part with a type code 0x0100, 0x0101, 0x0200 or
\* 0x0210 raises no error and yields no sample; a datagram that starts with a
\* type code outside the 14 protocol codes ends in a ProtocolError, which run
\* catches.
C10_SkipOrFatal ==
    (received > 0) =>
        /\ (OnePart(dgram) /\ PartCode(dgram) \in SkippedTypes) =>
               (alive /\ logged = "none" /\ handled = 0 /\ queue = <<>>)
        /\ (Len(dgram) >= 4 /\ PartCode(dgram) \notin PartTypes) =>
               (alive /\ logged = "ProtocolError")

C20_OnlyOwnKey ==
    [][ /\ \A n \in Names \ {last'.name} :
              /\ (n \in DOMAIN prev_samples') = (n \in DOMAIN prev_samples)
              /\ n \in DOMAIN prev_samples => prev_samples'[n] = prev_samples[n]
        /\ last'.vtype \notin 0..3 =>
              (prev_samples' = prev_samples /\ last'.ret = None /\ last'.exc = "none")
      ]_vars

C20_Witness ==
    /\ last.called /\ last.vtype = 4 /\ last.name = <<104>>
    /\ DOMAIN prev_samples = Names
    /\ prev_samples[<<104>>] # prev_samples[<<109>>]

\* the step is a next() of parse_data that yielded a part
YieldStep == wpc = "run" /\ Len(yielded') = Len(yielded) + 1
DeclaredLength(d) == UnpackBE(SubSeq(d, 3, 4))

\* C18: every part parse_data yields is the slice right after its header: the
\* bytes before the step are header, payload, bytes left, in this order, and
\* the payload has exactly (declared length - 4) bytes, for every declared
\* length.
C18_ConsecutiveSlices ==
    [][YieldStep =>
          /\ data = SubSeq(data, 1, 4) \o yielded'[Len(yielded')][2] \o data'
          /\ Len(yielded'[Len(yielded')][2]) = DeclaredLength(data) - 4
      ]_vars

\* C19: every next() of parse_data that yields leaves at least 4 bytes fewer
\* than it found, one that does not yield either raises ProtocolError or ends
\* the walk on an empty rest; so a walk yields at most Len(datagram) / 4 parts.
C19_WalkTerminates ==
    /\ [](Len(yielded) * 4 + Len(data) <= Len(dgram))
    /\ [][wpc = "run" =>
            /\ wpc' = "run" => Len(data') + 4 <= Len(data)
            /\ wpc' = "raised" => werr' = "ProtocolError"
            /\ wpc' = "stopped" => data = <<>>
         ]_vars

C19_Witness ==
    /\ dgram = Part(0, 0, <<>>) \o WellFormed(0, <<104, 0>>)
    /\ yielded = <<<<0, <<0, 0>>>>>>
    /\ wpc = "run"
    /\ data = <<0, 6, 104, 0>>

(***************************************************************************)
(* Direct calls of the part decoders and of CollectDParser.parse           *)
(***************************************************************************)
\* the names parse_samples builds string decoders for (lines 100-106)
StrFields == {"host", "plugin", "plugin_instance", "type", "type_instance"}

StrPayloads ==
    { <<>>,                 \* ''
      <<0>>,                \* '\0'
      <<104, 0>>,           \* 'h\0'
      <<104>>,              \* 'h', no terminator
      <<0, 104>> }          \* '\0h', no terminator

\* self._parse_string(name)(sample, data) on the dict psample
ParseString ==
    /\ \E name \in StrFields, d \in StrPayloads :
         LET r == _parse_string(name, psample, d) IN
         /\ psample' = r.sample
         /\ pcall' = [op |-> "_parse_string", name |-> name, arg |-> d,
                      before |-> psample, exc |-> r.exc, out |-> <<>>]
    /\ UNCHANGED <<prev_samples, queue, last, data, yielded, wpc, werr, dgram,
                   received, handled, alive, logged, seenRate, seenAny>>

Zeros(n) == [i \in 1..n |-> 0]

\* payloads of a values part: the count, the kind tags, 8 bytes per value
ValuesPayloads ==
    { <<>>,
      <<0>>,
      <<0, 0>>,
      <<0, 1>>,
      <<0, 1, 0>> \o Zeros(7) \o <<2>>,                     \* COUNTER 2
      <<0, 1, 0>> \o Zeros(7) \o <<2, 0>>,                  \* one byte too many
      <<0, 1, 0>> \o Zeros(7),                              \* one byte too few
      <<0, 1, 1>> \o Zeros(8),                              \* GAUGE
      <<0, 1, 2>> \o Zeros(7) \o <<1>>,                     \* DERIVE 1
      <<0, 2, 0, 0>> \o Zeros(7) \o <<1>> \o Zeros(7) \o <<2>>,  \* COUNTER 1, 2
      <<0, 2, 0, 1>> \o Zeros(16),                          \* COUNTER, GAUGE
      <<0, 2, 1, 0>> \o Zeros(16) }                         \* GAUGE, COUNTER

\* type names: "c", "g", "d", "a", "i" of the table, and "x"
TypeNames == DOMAIN types \cup {<<120>>}

\* list(self.parse_values(stype, data))
ParseValues ==
    /\ \E stype \in TypeNames, d \in ValuesPayloads :
         LET r == parse_values(stype, d) IN
         pcall' = [op |-> "parse_values", name |-> stype, arg |-> d,
                   before |-> psample, exc |-> r.exc, out |-> r.vals]
    /\ UNCHANGED <<prev_samples, queue, last, data, yielded, wpc, werr, dgram,
                   received, handled, alive, logged, seenRate, seenAny, psample>>

NextDecode == ParseString \/ ParseValues
SpecDecode == Init /\ [][NextDecode]_vars

\* list(parser.parse(d)) for one datagram; parse keeps nothing between calls
Parse ==
    /\ pcall.op = "none"
    /\ \E d \in Datagrams :
         LET r == Drain(parse_samples(d), <<>>) IN
         pcall' = [op |-> "parse", name |-> <<>>, arg |-> d,
                   before |-> psample, exc |-> r.exc, out |-> r.samples]
    /\ UNCHANGED <<prev_samples, queue, last, data, yielded, wpc, werr, dgram,
                   received, handled, alive, logged, seenRate, seenAny, psample>>

SpecParse == Init /\ [][Parse]_vars

\* C11: a string decoder called with any payload, the empty one included,
\* either finds the payload ending in a zero byte and sets the field to the
\* payload without it, or raises ProtocolError and leaves the field as it was.
C11_StringOrProtocolError ==
    pcall.op = "_parse_string" =>
        \/ /\ pcall.arg # <<>>
           /\ pcall.arg[Len(pcall.arg)] = 0
           /\ pcall.exc = "none"
           /\ psample = SetItem(pcall.before, pcall.name,
                                SubSeq(pcall.arg, 1, Len(pcall.arg) - 1))
        \/ /\ pcall.exc = "ProtocolError"
           /\ psample = pcall.before

\* what the claim calls an invalid values part for the type stype
InvalidValues(stype, d) ==
    \/ Len(d) < 2
    \/ Len(d) # 2 + 9 * (d[1] * 256 + d[2])
    \/ stype \notin DOMAIN types
    \/ Len(types[stype]) # d[1] * 256 + d[2]
    \/ \E i \in 1..Len(types[stype]) : d[2 + i] # types[stype][i][2]

\* C12: parse_values raises ProtocolError and yields nothing for every payload
\* whose length is not 2 + 9n, whose type is not in the table, whose count is
\* not the arity of the type, or that has a kind tag differing from the table.
C12_ValuesValidatedAsAWhole ==
    (pcall.op = "parse_values" /\ InvalidValues(pcall.name, pcall.arg)) =>
        (pcall.exc = "ProtocolError" /\ pcall.out = <<>>)

\* the number of values the values parts of the bytes d declare
RECURSIVE ValueEntries(_)
ValueEntries(d) ==
    LET p == parse_data(d) IN
    IF p.k # "yield" THEN 0
    ELSE (IF p.ptype = 6 THEN UnpackBE(Take(p.pdata, 2)) ELSE 0) + ValueEntries(p.data)

\* C13: parsing a datagram whose parts are all valid yields one sample per
\* entry of its values parts, and every sample carries the type and the host
\* that the parts before its values part set last.
C13_SamplesPerEntry ==
    (pcall.op = "parse" /\ PartWalk(pcall.arg).exc = "none"
                        /\ ValueEntries(pcall.arg) > 0) =>
        /\ pcall.exc = "none"
        /\ Len(pcall.out) = ValueEntries(pcall.arg)
        /\ pcall.out = PartWalk(pcall.arg).samples

(***************************************************************************)
(* Direct calls of CollectDConverter                                       *)
(***************************************************************************)
StrHostC1 == <<99, 49, 46, 101, 120, 97, 109, 112, 108, 101, 46, 99, 111, 109>>
StrCom    == <<99, 111, 109>>               \* "com"
StrExample == <<101, 120, 97, 109, 112, 108, 101>>
StrCpu    == <<99, 112, 117>>               \* "cpu"
StrDb     == <<100, 98>>                    \* "db"
StrLoad   == <<108, 111, 97, 100>>          \* "load"

\* a dict with the key when a value is given for it
Entry(key, o) == IF o = None THEN <<>> ELSE (key :> o[1])

Hosts == {<<>>, <<104>>, StrHostC1, <<32, 97, 46, 98, 32>>, <<98, 46, 98>>}

\* the samples stat is called with
StatSamples ==
    { Entry("host", h) @@ Entry("plugin", p) @@ Entry("plugin_instance", pi)
        @@ Entry("type", t) @@ Entry("type_instance", ti) @@ Entry("value_name", vn) :
      h  \in {None} \cup {Some(x) : x \in Hosts \ {<<>>}},
      p  \in {None, Some(StrCpu), Some(<<98>>)},
      pi \in {None, Some(<<>>), Some(<<48>>)},
      t  \in {None, Some(StrValue), Some(<<99>>)},
      ti \in {None, Some(<<98>>)},
      vn \in {None, Some(StrValue), Some(StrRx)} }

Stat ==
    /\ \E smp \in StatSamples :
         pcall' = [op |-> "stat", name |-> <<>>, arg |-> smp, before |-> psample,
                   exc |-> stat(smp).exc, out |-> stat(smp).name]
    /\ UNCHANGED <<prev_samples, queue, last, data, yielded, wpc, werr, dgram,
                   received, handled, alive, logged, seenRate, seenAny, psample>>

Hostname ==
    /\ \E host \in Hosts :
         pcall' = [op |-> "hostname", name |-> <<>>, arg |-> host, before |-> psample,
                   exc |-> hostname(host).exc, out |-> hostname(host).parts]
    /\ UNCHANGED <<prev_samples, queue, last, data, yielded, wpc, werr, dgram,
                   received, handled, alive, logged, seenRate, seenAny, psample>>

\* lists of at most 3 parts "db", "load"
PartLists ==
    UNION {[1..n -> {StrDb, StrLoad}] : n \in 0..3}

StripDuplicates ==
    /\ \E parts \in PartLists :
         pcall' = [op |-> "strip_duplicates", name |-> <<>>, arg |-> parts,
                   before |-> psample, exc |-> strip_duplicates(parts).exc,
                   out |-> strip_duplicates(parts).parts]
    /\ UNCHANGED <<prev_samples, queue, last, data, yielded, wpc, werr, dgram,
                   received, handled, alive, logged, seenRate, seenAny, psample>>

\* the host_trim option: None, no rule, or lists of dotted suffixes
TrimOptions ==
    {None, Some(<<>>), Some(<<StrCom>>),
     Some(<<StrExample \o <<46>> \o StrCom>>),
     Some(<<StrCom, StrExample \o <<46>> \o StrCom>>)}

NewConverter ==
    /\ \E ht \in TrimOptions :
         pcall' = [op |-> "CollectDConverter", name |-> <<>>, arg |-> ht,
                   before |-> psample, exc |-> CollectDConverter(ht).exc,
                   out |-> CollectDConverter(ht).host_trim]
    /\ UNCHANGED <<prev_samples, queue, last, data, yielded, wpc, werr, dgram,
                   received, handled, alive, logged, seenRate, seenAny, psample>>

NextConv == NewConverter \/ Stat \/ Hostname \/ StripDuplicates
SpecConv == Init /\ [][NextConv]_vars

\* every run of adjacent identical parts collapsed to one occurrence
RECURSIVE Collapse(_)
Collapse(parts) ==
    IF Len(parts) <= 1 THEN parts
    ELSE IF parts[1] = parts[2] THEN Collapse(Tail(parts))
    ELSE <<parts[1]>> \o Collapse(Tail(parts))

\* the reversed, stripped labels of a host
HostLabels(host) ==
    Reversed([i \in 1..Len(Split(host, 46)) |-> Strip(Split(host, 46)[i])])

\* the name the default converter (no prefix, no postfix, no trim rule,
\* duplicate suppression on) is to give: host labels, then the parts of default
StatName(smp) ==
    Join(Collapse(HostLabels(DictGet(smp, "host", <<>>)) \o default(smp).parts))

\* C14: for a sample with a plugin and a value name, stat returns the host
\* labels reversed, the plugin, and the non-empty ones of plugin_instance,
\* type (unless "value"), type_instance and value_name (unless "value"),
\* joined with ".".
C14_StatJoinsParts ==
    (pcall.op = "stat" /\ "plugin" \in DOMAIN pcall.arg
                       /\ "value_name" \in DOMAIN pcall.arg) =>
        (pcall.exc = "none" /\ pcall.out = StatName(pcall.arg))

\* C15: a converter can be built with trim rules, keeping one rule per entry,
\* and hostname raises nothing; with no rule configured it returns the
\* reversed labels of the host unchanged.
C15_HostTrimFirstRule ==
    /\ pcall.op = "CollectDConverter" =>
          /\ pcall.exc = "none"
          /\ pcall.arg # None => Len(pcall.out) = Len(pcall.arg[1])
    /\ pcall.op = "hostname" =>
          (pcall.exc = "none" /\ pcall.out = HostLabels(pcall.arg))

\* C16: strip_duplicates returns, for every list of parts, the list with each
\* run of adjacent identical parts collapsed to one occurrence.
C16_CollapsesRuns ==
    pcall.op = "strip_duplicates" =>
        (pcall.exc = "none" /\ pcall.out = Collapse(pcall.arg))

====
